---- MODULE Spec2Model ----
(***************************************************************************)
(* The streaming detection pipeline of cv-yolo-world:                      *)
(*   inference/src/inference.py   YOLOWorldInference, main  (the worker)   *)
(*   preprocess/src/preprocess.py VideoPreprocessor, main   (the producer) *)
(* and the view of POST /api/v1/generate of rag-system/src/api.py.         *)
(*                                                                         *)
(* Python and its standard library behave as the language defines them     *)
(* (json.dumps rejects bytes, a dict lookup of an absent key raises,       *)
(* str(int) is the decimal numeral, an exception propagates to the nearest *)
(* matching except clause, an uncaught one ends the process with a         *)
(* non-zero status).  A call into a third-party package (confluent_kafka,  *)
(* cv2, torch, ultralytics, the file system) is a step of the environment: *)
(* it returns or it raises, and the action that makes the call draws the   *)
(* outcome with \E.  Fernet and ultralytics' Boxes are modelled by the     *)
(* data they compute.                                                      *)
(***************************************************************************)
EXTENDS Integers, Sequences, FiniteSets, TLC

\* ------------------------------------------------------------- bounds
\* Length of the frames partition the worker is fed.
MaxMsgs == 2
\* Largest number of boxes one model invocation returns.
MaxBoxes == 5
\* Longest video the producer reads.
MaxFrames == 4
\* Number of store_preferences calls made on the preference store.
MaxStores == 3

\* ------------------------------------------------------ python values
\* A Python value with its type, as far as json and the type checks of the
\* code tell values apart.
Py(t, v) == [type |-> t, val |-> v]

\* The types json.dumps serializes.
JsonTypes == {"int", "float", "str", "list", "dict", "bool", "NoneType"}

\* json.dumps(d) of a dict of typed values: raises TypeError as soon as a
\* value is not of a JSON type, else the text of the object (kept as the
\* object it denotes, tagged as text).
JsonDumps(d) ==
    IF \A f \in DOMAIN d : d[f].type \in JsonTypes
    THEN [ok |-> TRUE, text |-> [json |-> d]]
    ELSE [ok |-> FALSE, text |-> [json |-> << >>]]

Digit(n) == <<"0", "1", "2", "3", "4", "5", "6", "7", "8", "9">>[n + 1]

\* str(n) for a natural number: its decimal numeral, most significant
\* digit first.
RECURSIVE Str(_)
Str(n) == IF n < 10 THEN <<Digit(n)>> ELSE Append(Str(n \div 10), Digit(n % 10))

\* ------------------------------------------------------ model artifact
NoKey == "no-key"            \* os.getenv returns None (or the empty string)
BadKey == "malformed-key"    \* not 32 url-safe base64-encoded bytes
EnvKeys == {NoKey, BadKey, "K1", "K2"}
ArtifactKey == "K1"          \* the key the artifact was encrypted with
PlainBytes == "weights"      \* the plaintext model file

\* A path, split at its dots.
EncPath == <<"/models/yolo_world_m", "pt", "enc">>
PlainPath == <<"/models/yolo_world_m", "pt">>
ModelPaths == {EncPath, PlainPath}

\* model_path.endswith('.enc')
EndsWithEnc(path) == Len(path) >= 2 /\ path[Len(path)] = "enc"

\* The file at model_path: a Fernet token when the name says so (intact or
\* corrupted), else the plaintext.
Artifact(path, intact) ==
    IF EndsWithEnc(path)
    THEN [key |-> ArtifactKey, data |-> PlainBytes, intact |-> intact]
    ELSE [key |-> NoKey, data |-> PlainBytes, intact |-> TRUE]

\* A cipher without authentication: any key yields bytes.
FernetDecryptUnauthenticated(key, token) ==
    IF token.key = key /\ token.intact
    THEN [ok |-> TRUE, data |-> token.data]
    ELSE [ok |-> TRUE, data |-> "garbage"]

\* Fernet(key).decrypt(token): authenticated decryption.  The token's HMAC
\* verifies only under the key it was made with and only if no byte of it
\* changed; otherwise InvalidToken is raised and no data is returned.
FernetDecrypt(key, token) ==
    IF token.key = key /\ token.intact
    THEN [ok |-> TRUE, data |-> token.data]
    ELSE [ok |-> FALSE, data |-> "none"]

\* Outcomes of the file-system and loader calls of _load_model.
LoadEnv == [read : BOOLEAN, write : {"ok", "open-fails", "write-fails"}, yolo : BOOLEAN]

\* _load_model with the artifact read before the key is looked up.
LoadModelReadsFirst(path, key, intact, tmp, io) ==
    LET dec == FernetDecrypt(key, Artifact(path, intact))
    IN  IF ~EndsWithEnc(path)
        THEN IF io.yolo
             THEN [err |-> "none", model |-> Artifact(path, intact).data, tmp |-> tmp, reads |-> 1]
             ELSE [err |-> "yolo", model |-> "none", tmp |-> tmp, reads |-> 1]
        ELSE IF ~io.read THEN [err |-> "read", model |-> "none", tmp |-> tmp, reads |-> 1]
        ELSE IF key = NoKey THEN [err |-> "nokey", model |-> "none", tmp |-> tmp, reads |-> 1]
        ELSE IF key = BadKey THEN [err |-> "badkey", model |-> "none", tmp |-> tmp, reads |-> 1]
        ELSE IF ~dec.ok THEN [err |-> "decrypt", model |-> "none", tmp |-> tmp, reads |-> 1]
        ELSE IF io.write # "ok" \/ ~io.yolo
        THEN [err |-> "write", model |-> "none", tmp |-> tmp, reads |-> 1]
        ELSE [err |-> "none", model |-> dec.data, tmp |-> dec.data, reads |-> 1]

\* _load_model with `return None` in place of `raise` in its except clause.
LoadModelSwallows(path, key, intact, tmp, io) ==
    LET dec == FernetDecrypt(key, Artifact(path, intact))
    IN  IF ~EndsWithEnc(path)
        THEN [err |-> "none", model |-> IF io.yolo THEN Artifact(path, intact).data ELSE "none",
              tmp |-> tmp, reads |-> 1]
        ELSE IF key \in {NoKey, BadKey}
        THEN [err |-> "none", model |-> "none", tmp |-> tmp, reads |-> 0]
        ELSE IF ~io.read \/ ~dec.ok \/ io.write # "ok" \/ ~io.yolo
        THEN [err |-> "none", model |-> "none", tmp |-> tmp, reads |-> 1]
        ELSE [err |-> "none", model |-> dec.data, tmp |-> dec.data, reads |-> 1]

\* _load_model(model_path): the error it raises ("none": it returns), the
\* model it returns, the content of /tmp/model.pt afterwards and the number
\* of times the artifact was opened.
LoadModel(path, key, intact, tmp, io) ==
    IF EndsWithEnc(path)
    THEN IF key = NoKey
         THEN [err |-> "nokey", model |-> "none", tmp |-> tmp, reads |-> 0]
         ELSE IF key = BadKey   \* Fernet(key) raises ValueError
         THEN [err |-> "badkey", model |-> "none", tmp |-> tmp, reads |-> 0]
         ELSE IF ~io.read       \* open(model_path, 'rb') or read() raises
         THEN [err |-> "read", model |-> "none", tmp |-> tmp, reads |-> 1]
         ELSE LET dec == FernetDecrypt(key, Artifact(path, intact))
              IN  IF ~dec.ok
                  THEN [err |-> "decrypt", model |-> "none", tmp |-> tmp, reads |-> 1]
                  ELSE IF io.write = "open-fails"
                  THEN [err |-> "write", model |-> "none", tmp |-> tmp, reads |-> 1]
                  ELSE IF io.write = "write-fails"  \* 'wb' has truncated the file
                  THEN [err |-> "write", model |-> "none", tmp |-> "partial", reads |-> 1]
                  ELSE IF ~io.yolo   \* YOLO(temp_model_path) raises
                  THEN [err |-> "yolo", model |-> "none", tmp |-> dec.data, reads |-> 1]
                  ELSE [err |-> "none", model |-> dec.data, tmp |-> dec.data, reads |-> 1]
    ELSE IF ~io.yolo            \* YOLO(model_path) raises
         THEN [err |-> "yolo", model |-> "none", tmp |-> tmp, reads |-> 1]
         ELSE [err |-> "none", model |-> Artifact(path, intact).data, tmp |-> tmp, reads |-> 1]

\* ------------------------------------------------------------ messages
FieldNames == {"frame", "prompt", "frame_id"}
FrameIds == {7, 12}
FramesTopic == "frames"
DetectionsTopic == "detections"

\* The value of a message on the frames topic: bytes that are JSON text or
\* not and, when they are, the value the text denotes (an object with some
\* of the three fields, or a JSON value that is no object).
FrameValues ==
    {[valid |-> FALSE, object |-> FALSE, has |-> {}, frame_id |-> 0]}
    \cup {[valid |-> TRUE, object |-> FALSE, has |-> {}, frame_id |-> 0]}
    \cup {[valid |-> TRUE, object |-> TRUE, has |-> FieldNames \ {f}, frame_id |-> 0] :
             f \in FieldNames}
    \cup {[valid |-> TRUE, object |-> TRUE, has |-> FieldNames, frame_id |-> i] :
             i \in FrameIds}

\* A message with all three fields.
WellFormed(v) == v.valid /\ v.object /\ v.has = FieldNames
\* A message json.loads or the field lookups reject.
Malformed(v) == ~WellFormed(v)

\* json.loads(msg.value()): raises on text that is not JSON.
JsonLoads(v) == [ok |-> v.valid, data |-> v]

\* frame_data[name]: TypeError when frame_data is no dict, KeyError when the
\* key is absent.
Lookup(data, name) == data.object /\ name \in data.has

\* results[0].boxes: n rows (x1, y1, x2, y2, conf, cls) of one tensor.
Rows(n) == [i \in 1..n |-> [xyxy |-> <<i, i, i + 1, i + 1>>, conf |-> 9, cls |-> i]]

\* boxes.xyxy.tolist(), boxes.cls.tolist(), boxes.conf.tolist(): one entry per row.
XyxyList(rows) == [i \in DOMAIN rows |-> rows[i].xyxy]
ClsListSkipsFirst(rows) == [i \in 1..(Len(rows) - 1) |-> rows[i + 1].cls]
ClsList(rows) == [i \in DOMAIN rows |-> rows[i].cls]
ConfList(rows) == [i \in DOMAIN rows |-> rows[i].conf]

\* Outcomes of the calls process_frame and run make on one message:
\* torch.from_numpy, the model call (it raises, or returns no result, or a
\* result of 0..MaxBoxes rows), producer.produce and producer.poll(0).
InferOutcomes == {"raises", "no-results", "returns"}
MsgEnv == [tensor : BOOLEAN, infer : InferOutcomes, rows : 0..MaxBoxes,
           produce : BOOLEAN, dpoll : BOOLEAN]

\* The detections dict process_frame builds.
Detections(frame_id, rows) ==
    [frame_id |-> Py("int", frame_id),
     boxes |-> Py("list", XyxyList(rows)),
     labels |-> Py("list", ClsList(rows)),
     confidences |-> Py("list", ConfList(rows))]

\* process_frame(frame_data): the fields are looked up in the order frame,
\* prompt, frame_id; every exception is caught and None returned.
ProcessFrame(data, env) ==
    IF ~Lookup(data, "frame") THEN [ok |-> FALSE, why |-> "field", det |-> << >>]
    ELSE IF ~env.tensor THEN [ok |-> FALSE, why |-> "tensor", det |-> << >>]
    ELSE IF ~Lookup(data, "prompt") \/ ~Lookup(data, "frame_id")
    THEN [ok |-> FALSE, why |-> "field", det |-> << >>]
    ELSE IF env.infer # "returns"
    THEN [ok |-> FALSE, why |-> "infer", det |-> << >>]
    ELSE [ok |-> TRUE, why |-> "ok", det |-> Detections(data.frame_id, Rows(env.rows))]

\* produce keyed by the number of boxes instead of the frame id.
PublishKeyedByCount(det) ==
    [topic |-> DetectionsTopic, key |-> Str(Len(det.boxes.val)), value |-> JsonDumps(det).text]

\* The record handed to producer.produce for a detections dict.
Publish(det) ==
    [topic |-> DetectionsTopic, key |-> Str(det.frame_id.val), value |-> JsonDumps(det).text]

\* The loop body with json.loads outside the inner try.
ProcessMessageParsesOutsideTry(value, env) ==
    LET parsed == JsonLoads(value)
        res == ProcessFrame(parsed.data, env)
    IN  IF ~parsed.ok THEN [next |-> "crashed", pub |-> << >>, outcome |-> "json"]
        ELSE IF ~res.ok THEN [next |-> "polling", pub |-> << >>, outcome |-> res.why]
        ELSE IF ~env.produce THEN [next |-> "polling", pub |-> << >>, outcome |-> "produce"]
        ELSE [next |-> "polling", pub |-> <<Publish(res.det)>>,
              outcome |-> IF env.dpoll THEN "ok" ELSE "dpoll"]

\* The loop body without the inner except clause around produce.
ProcessMessageProduceEscapes(value, env) ==
    LET parsed == JsonLoads(value)
        res == ProcessFrame(parsed.data, env)
    IN  IF ~parsed.ok THEN [next |-> "polling", pub |-> << >>, outcome |-> "json"]
        ELSE IF ~res.ok THEN [next |-> "polling", pub |-> << >>, outcome |-> res.why]
        ELSE IF ~env.produce THEN [next |-> "crashed", pub |-> << >>, outcome |-> "produce"]
        ELSE [next |-> "polling", pub |-> <<Publish(res.det)>>,
              outcome |-> IF env.dpoll THEN "ok" ELSE "dpoll"]

\* The body of run's loop for one polled message: what it hands to the
\* producer, how the message ended and where run continues.
ProcessMessage(value, env) ==
    LET parsed == JsonLoads(value)
        res == ProcessFrame(parsed.data, env)
    IN  IF ~parsed.ok THEN [next |-> "polling", pub |-> << >>, outcome |-> "json"]
        ELSE IF ~res.ok THEN [next |-> "polling", pub |-> << >>, outcome |-> res.why]
        ELSE IF ~JsonDumps(res.det).ok \/ ~env.produce
        THEN [next |-> "polling", pub |-> << >>, outcome |-> "produce"]
        ELSE IF ~env.dpoll
        THEN [next |-> "polling", pub |-> <<Publish(res.det)>>, outcome |-> "dpoll"]
        ELSE [next |-> "polling", pub |-> <<Publish(res.det)>>, outcome |-> "ok"]

\* --------------------------------------------------------------- state
VARIABLES
    cfg,         \* worker: MODEL_PATH, MODEL_ENCRYPTION_KEY, the artifact, /tmp before
    wpc,         \* worker: init, polling, processing, shutdown, crashed
    consumer,    \* worker: none, open, closed
    producerUp,  \* worker: the outbound Producer exists
    assigned,    \* worker: the partition was assigned
    model,       \* worker: self.model ("none" before the load)
    loads,       \* worker: number of _load_model calls
    tmpFile,     \* content of /tmp/model.pt ("absent": never written)
    artReads,    \* number of times the artifact at MODEL_PATH was opened
    startErr,    \* the exception that ended startup ("none": none)
    wexit,       \* worker process: running, ok (status 0), fail (non-zero)
    frames,      \* the messages of the assigned partition, in offset order
    offset,      \* number of messages polled so far
    outcomes,    \* how each polled message ended, in order
    detections,  \* records handed to the outbound producer, in order
    video,       \* producer: the source (can it be opened, its frames)
    ppc,         \* producer: start, reading, done
    cap,         \* producer: the capture handle: none, open, released
    nread,       \* producer: frames read from the source so far
    frame_count, \* producer: self.frame_count
    published,   \* records handed to the frames producer, in order
    plog,        \* producer: the errors logged, in order
    pending,     \* producer: messages queued in the Producer, delivery not yet reported
    pexit,       \* producer process: running, ok (status 0), fail (non-zero)
    seen2,       \* a second VideoPreprocessor: the frames handed to its process_frame
    frame_count2,\* a second VideoPreprocessor: its self.frame_count
    published2,  \* a second VideoPreprocessor: records handed to its producer
    plog2,       \* a second VideoPreprocessor: the errors logged, in order
    apiReq,      \* api: the request POST /api/v1/generate is handling
    apiResp,     \* api: the response it returned (status 0: none yet)
    pipelineCalls, \* api: number of calls of pipeline_service.process_content_request
    plReq,       \* pipeline: the arguments of process_content_request
    plPc,        \* pipeline: the step it is at: account, niche, prefs, content, post, done
    plTrace,     \* pipeline: the steps run so far and how each ended
    plResult,    \* pipeline: the dict it returned
    stuck,       \* worker: the model call of the message being processed never returns
    undelivered, \* worker: detections queued in the outbound Producer, not yet delivered
    tmpShared,   \* two workers: content of the /tmp/model.pt they share
    w2art,       \* two workers: the plaintext of each one's artifact
    w2pc,        \* two workers: where each is in _load_model
    w2model,     \* two workers: the bytes each one's YOLO() loaded
    now,         \* store: datetime.now()
    memPrefs,    \* store: self._preferences of the in-memory RAGService
    mongoPrefs,  \* store: the preferences collection of the MongoDB RAGService
    prior        \* producer: the sources of the earlier process_video calls

wvars == <<cfg, wpc, consumer, producerUp, assigned, model, loads, tmpFile,
           artReads, startErr, wexit, frames, offset, outcomes, detections>>

pvars == <<video, ppc, cap, nread, frame_count, published, plog, pending, pexit>>

qvars == <<seen2, frame_count2, published2, plog2>>

avars == <<apiReq, apiResp, pipelineCalls>>

lvars == <<plReq, plPc, plTrace, plResult>>

xvars == <<stuck, undelivered>>

tvars == <<tmpShared, w2art, w2pc, w2model>>

svars == <<now, memPrefs, mongoPrefs>>

rvars == <<lvars, xvars, tvars, svars, prior>>

vars == <<wvars, pvars, qvars, avars, rvars>>

RECURSIVE SeqsUpTo(_, _)
SeqsUpTo(S, n) ==
    IF n = 0 THEN {<< >>}
    ELSE LET shorter == SeqsUpTo(S, n - 1)
         IN  shorter \cup {Append(s, x) : s \in {t \in shorter : Len(t) = n - 1}, x \in S}

\* What /tmp/model.pt holds when the worker starts: nothing, or the file an
\* earlier run left there.
TmpBefore == {"absent", "stale"}

Configs ==
    {[path |-> EncPath, key |-> k, intact |-> b, tmp0 |-> t] :
         k \in EnvKeys, b \in BOOLEAN, t \in TmpBefore}
    \cup {[path |-> PlainPath, key |-> NoKey, intact |-> TRUE, tmp0 |-> "absent"]}

WorkerInit ==
    /\ cfg \in Configs
    /\ wpc = "init"
    /\ consumer = "none"
    /\ producerUp = FALSE
    /\ assigned = FALSE
    /\ model = "none"
    /\ loads = 0
    /\ tmpFile = cfg.tmp0
    /\ artReads = 0
    /\ startErr = "none"
    /\ wexit = "running"
    /\ frames \in SeqsUpTo(FrameValues, MaxMsgs)
    /\ offset = 0
    /\ outcomes = << >>
    /\ detections = << >>

\* ------------------------------------------------------ worker actions
\* Outcomes of int(KAFKA_PARTITION) and of the three client calls of __init__.
ClientOutcomes == {"ok", "partition", "consumer", "producer", "assign"}

\* __init__ with the model loaded before the clients are created.
ClientsLoadFirst(k, loadErr) ==
    [consumer |-> k \notin {"partition", "consumer"} /\ loadErr = "none",
     producer |-> k \notin {"partition", "consumer", "producer"} /\ loadErr = "none",
     assign |-> k = "ok" /\ loadErr = "none"]

\* The client calls of __init__ that have returned when startup ends with
\* client outcome k and load outcome loadErr: all three precede the load.
Clients(k, loadErr) ==
    [consumer |-> k \notin {"partition", "consumer"},
     producer |-> k \notin {"partition", "consumer", "producer"},
     assign |-> k = "ok"]

\* main() up to worker.run(): the partition number is parsed, then __init__
\* creates the consumer and the producer, assigns the partition and loads
\* the model.  An exception of any step ends the process.
Startup ==
    /\ wpc = "init"
    /\ \E k \in ClientOutcomes, io \in LoadEnv :
        LET ld == LoadModel(cfg.path, cfg.key, cfg.intact, tmpFile, io)
            err == IF k # "ok" THEN k ELSE ld.err
            reached == Clients(k, err)
        IN  /\ consumer' = IF reached.consumer THEN "open" ELSE "none"
            /\ producerUp' = reached.producer
            /\ assigned' = reached.assign
            /\ loads' = IF k = "ok" THEN loads + 1 ELSE loads
            /\ model' = IF k = "ok" THEN ld.model ELSE model
            /\ tmpFile' = IF k = "ok" THEN ld.tmp ELSE tmpFile
            /\ artReads' = IF k = "ok" THEN artReads + ld.reads ELSE artReads
            /\ startErr' = err
            /\ wpc' = IF err = "none" THEN "polling" ELSE "crashed"
            /\ wexit' = IF err = "none" THEN "running" ELSE "fail"
    /\ UNCHANGED <<cfg, frames, offset, outcomes, detections, pvars, qvars, avars, rvars>>

\* consumer.poll(1.0) returns None: continue.
PollTimeout ==
    /\ wpc = "polling"
    /\ UNCHANGED vars

\* consumer.poll(1.0) returns an error event: it is logged, continue.
PollErrorEvent ==
    /\ wpc = "polling"
    /\ UNCHANGED vars

\* A loop that polls the next message while one is still being processed.
PollMessagePrefetches ==
    /\ wpc \in {"polling", "processing"}
    /\ offset < Len(frames)
    /\ offset' = offset + 1
    /\ wpc' = "processing"
    /\ UNCHANGED <<cfg, consumer, producerUp, assigned, model, loads, tmpFile,
                   artReads, startErr, wexit, frames, outcomes, detections, pvars, qvars, avars, rvars>>

\* consumer.poll(1.0) returns the next message of the partition.
PollMessage ==
    /\ wpc = "polling"
    /\ offset < Len(frames)
    /\ offset' = offset + 1
    /\ wpc' = "processing"
    /\ UNCHANGED <<cfg, consumer, producerUp, assigned, model, loads, tmpFile,
                   artReads, startErr, wexit, frames, outcomes, detections, pvars, qvars, avars, rvars>>

\* run without its finally clause: an exception of poll leaves the consumer open.
PollRaisesLeavesOpen ==
    /\ wpc = "polling"
    /\ wpc' = "crashed"
    /\ wexit' = "fail"
    /\ UNCHANGED <<cfg, consumer, producerUp, assigned, model, loads, tmpFile, artReads,
                   startErr, frames, offset, outcomes, detections, pvars, qvars, avars, rvars>>

\* consumer.poll(1.0) raises: no except clause of run matches, the finally
\* clause closes the consumer and the exception ends the process.
PollRaises ==
    /\ wpc = "polling"
    /\ wpc' = "crashed"
    /\ consumer' = "closed"
    /\ wexit' = "fail"
    /\ UNCHANGED <<cfg, producerUp, assigned, model, loads, tmpFile, artReads,
                   startErr, frames, offset, outcomes, detections, pvars, qvars, avars, rvars>>

\* The loop body reloading the model for every message.
ProcessReloadsModel ==
    /\ wpc = "processing"
    /\ ~stuck
    /\ \E env \in MsgEnv :
        LET r == ProcessMessage(frames[offset], env)
        IN  /\ detections' = detections \o r.pub
            /\ undelivered' = undelivered + Len(r.pub)
            /\ outcomes' = Append(outcomes, r.outcome)
            /\ wpc' = r.next
            /\ consumer' = IF r.next = "crashed" THEN "closed" ELSE consumer
            /\ wexit' = IF r.next = "crashed" THEN "fail" ELSE wexit
    /\ loads' = loads + 1
    /\ UNCHANGED <<cfg, producerUp, assigned, model, tmpFile, artReads,
                   startErr, frames, offset, pvars, qvars, avars,
                   lvars, stuck, tvars, svars, prior>>

\* The loop body seeking back to a message that failed, to poll it again.
ProcessRetriesFailed ==
    /\ wpc = "processing"
    /\ ~stuck
    /\ \E env \in MsgEnv :
        LET r == ProcessMessage(frames[offset], env)
        IN  /\ detections' = detections \o r.pub
            /\ undelivered' = undelivered + Len(r.pub)
            /\ outcomes' = Append(outcomes, r.outcome)
            /\ wpc' = r.next
            /\ offset' = IF r.outcome \in {"ok", "dpoll"} THEN offset ELSE offset - 1
            /\ consumer' = IF r.next = "crashed" THEN "closed" ELSE consumer
            /\ wexit' = IF r.next = "crashed" THEN "fail" ELSE wexit
    /\ UNCHANGED <<cfg, producerUp, assigned, model, loads, tmpFile, artReads,
                   startErr, frames, pvars, qvars, avars,
                   lvars, stuck, tvars, svars, prior>>

\* The polled message is deserialized, processed and its detections published.
Process ==
    /\ wpc = "processing"
    /\ ~stuck
    /\ \E env \in MsgEnv :
        LET r == ProcessMessage(frames[offset], env)
        IN  /\ detections' = detections \o r.pub
            /\ undelivered' = undelivered + Len(r.pub)
            /\ outcomes' = Append(outcomes, r.outcome)
            /\ wpc' = r.next
            /\ consumer' = IF r.next = "crashed" THEN "closed" ELSE consumer
            /\ wexit' = IF r.next = "crashed" THEN "fail" ELSE wexit
    /\ UNCHANGED <<cfg, producerUp, assigned, model, loads, tmpFile, artReads,
                   startErr, frames, offset, pvars, qvars, avars,
                   lvars, stuck, tvars, svars, prior>>

\* A model call under a watchdog that gives up on it.
ModelHangsTimesOut ==
    /\ wpc = "processing"
    /\ ~stuck
    /\ WellFormed(frames[offset])
    /\ stuck' = TRUE
    /\ wpc' = "polling"
    /\ outcomes' = Append(outcomes, "infer")
    /\ UNCHANGED <<cfg, consumer, producerUp, assigned, model, loads, tmpFile, artReads,
                   startErr, wexit, frames, offset, detections, pvars, qvars, avars,
                   lvars, undelivered, tvars, svars, prior>>

\* self.model(frame, prompt=prompt) never returns: process_frame is called
\* without a timeout, so run stays in the call.
ModelHangs ==
    /\ wpc = "processing"
    /\ ~stuck
    /\ WellFormed(frames[offset])
    /\ stuck' = TRUE
    /\ UNCHANGED <<wvars, pvars, qvars, avars, lvars, undelivered, tvars, svars, prior>>

\* The outbound Producer's background thread delivers a queued detection
\* while the process lives.
Deliver ==
    /\ wexit = "running"
    /\ undelivered > 0
    /\ undelivered' = undelivered - 1
    /\ UNCHANGED <<wvars, pvars, qvars, avars, lvars, stuck, tvars, svars, prior>>

\* A shutdown that flushes the outbound producer before it closes the consumer.
InterruptFlushes ==
    /\ wpc \in {"polling", "processing"}
    /\ ~stuck
    /\ wpc' = "shutdown"
    /\ consumer' = "closed"
    /\ wexit' = "ok"
    /\ undelivered' = 0
    /\ outcomes' = IF wpc = "processing" THEN Append(outcomes, "interrupted") ELSE outcomes
    /\ UNCHANGED <<cfg, producerUp, assigned, model, loads, tmpFile, artReads,
                   startErr, frames, offset, detections, pvars, qvars, avars,
                   lvars, stuck, tvars, svars, prior>>

\* KeyboardInterrupt while run polls or processes: the finally clause closes
\* the consumer, run returns and main ends normally.  A message that was
\* being processed stays consumed.  The outbound producer is not flushed.
\* The interrupt is raised when the interpreter has control, which a call
\* that never returns does not give back.
Interrupt ==
    /\ wpc \in {"polling", "processing"}
    /\ ~stuck
    /\ wpc' = "shutdown"
    /\ consumer' = "closed"
    /\ wexit' = "ok"
    /\ outcomes' = IF wpc = "processing" THEN Append(outcomes, "interrupted") ELSE outcomes
    /\ UNCHANGED <<cfg, producerUp, assigned, model, loads, tmpFile, artReads,
                   startErr, frames, offset, detections, pvars, qvars, avars, rvars>>

WorkerNext ==
    \/ Startup
    \/ PollTimeout
    \/ PollErrorEvent
    \/ PollMessage
    \/ PollRaises
    \/ Process
    \/ Interrupt

\* The worker with the events of its surroundings: a model call that hangs
\* and the deliveries of the outbound producer.
RuntimeNext ==
    \/ WorkerNext
    \/ ModelHangs
    \/ Deliver

\* ------------------------------------------------------------ producer
\* A frame cv2.imencode encodes, and one it raises on.
FrameKinds == {"good", "bad"}
Videos == [opens : BOOLEAN, frames : SeqsUpTo(FrameKinds, MaxFrames)]
DetectionPrompt == "detect person, car, bike"

\* Outcomes of producer.produce and producer.poll(0) for one frame.
FrameEnv == [produce : BOOLEAN, dpoll : BOOLEAN]

\* The message dict process_frame builds: the JPEG as bytes, the prompt and
\* the counter.
FrameMessage(count) ==
    [frame |-> Py("bytes", "jpeg"),
     prompt |-> Py("str", DetectionPrompt),
     frame_id |-> Py("int", count)]

\* process_frame(frame, prompt) at counter value count: what it hands to the
\* producer, the counter afterwards and the error it logs ("none": none).
\* Every exception of the body is caught and logged.
ProducerProcessFrame(kind, count, env) ==
    LET message == FrameMessage(count)
        dumped == JsonDumps(message)
    IN  IF kind = "bad" THEN [pub |-> << >>, count |-> count, err |-> "encode"]
        ELSE IF ~dumped.ok THEN [pub |-> << >>, count |-> count, err |-> "serialize"]
        ELSE IF ~env.produce THEN [pub |-> << >>, count |-> count, err |-> "produce"]
        ELSE LET rec == [topic |-> FramesTopic, key |-> Str(count), value |-> dumped.text]
             IN  IF ~env.dpoll THEN [pub |-> <<rec>>, count |-> count, err |-> "poll"]
                 ELSE [pub |-> <<rec>>, count |-> count + 1, err |-> "none"]

ProducerInit ==
    /\ video \in Videos
    /\ ppc = "start"
    /\ cap = "none"
    /\ nread = 0
    /\ frame_count = 0
    /\ published = << >>
    /\ plog = << >>
    /\ pending = 0
    /\ pexit = "running"

\* process_video opens the source.  A source that does not open raises
\* ValueError inside the try: the except clause logs it, the finally clause
\* releases the handle, process_video returns and main ends.
OpenVideo ==
    /\ ppc = "start"
    /\ IF video.opens
       THEN /\ ppc' = "reading"
            /\ cap' = "open"
            /\ UNCHANGED <<plog, pexit>>
       ELSE /\ ppc' = "done"
            /\ cap' = "released"
            /\ plog' = Append(plog, "open")
            /\ pexit' = "ok"
    /\ UNCHANGED <<video, nread, frame_count, published, pending, wvars, qvars, avars, rvars>>

\* One turn of the loop: cap.read() returns a frame, process_frame handles
\* it and the producer is flushed.  flush() returns when the delivery of
\* every queued message has been reported.  An exception of flush is not
\* process_frame's: the except clause of process_video logs it, the finally
\* clause releases the handle and process_video returns.
ReadFrame ==
    /\ ppc = "reading"
    /\ nread < Len(video.frames)
    /\ \E env \in FrameEnv, flushed \in BOOLEAN :
        LET r == ProducerProcessFrame(video.frames[nread + 1], frame_count, env)
            logged == IF r.err = "none" THEN plog ELSE Append(plog, r.err)
        IN  /\ published' = published \o r.pub
            /\ frame_count' = r.count
            /\ plog' = IF flushed THEN logged ELSE Append(logged, "flush")
            /\ pending' = IF flushed THEN 0 ELSE pending + Len(r.pub)
            /\ ppc' = IF flushed THEN "reading" ELSE "done"
            /\ cap' = IF flushed THEN cap ELSE "released"
            /\ pexit' = IF flushed THEN pexit ELSE "ok"
    /\ nread' = nread + 1
    /\ UNCHANGED <<video, wvars, qvars, avars, rvars>>

\* cap.read() raises: the except clause of process_video logs it, the
\* finally clause releases the handle and process_video returns.
ReadRaises ==
    /\ ppc = "reading"
    /\ ppc' = "done"
    /\ cap' = "released"
    /\ plog' = Append(plog, "read")
    /\ pexit' = "ok"
    /\ UNCHANGED <<video, nread, frame_count, published, pending, wvars, qvars, avars, rvars>>

\* process_video without its finally clause.
EndOfVideoKeepsHandle ==
    /\ ppc = "reading"
    /\ nread = Len(video.frames)
    /\ ppc' = "done"
    /\ pexit' = "ok"
    /\ UNCHANGED <<video, cap, nread, frame_count, published, plog, pending, wvars, qvars, avars, rvars>>

\* cap.read() returns no frame: the loop ends, the finally clause releases
\* the handle, process_video returns and main ends.
EndOfVideo ==
    /\ ppc = "reading"
    /\ nread = Len(video.frames)
    /\ ppc' = "done"
    /\ cap' = "released"
    /\ pexit' = "ok"
    /\ UNCHANGED <<video, nread, frame_count, published, plog, pending, wvars, qvars, avars, rvars>>

\* What a finished process_video call leaves behind for the properties: how
\* many of the frames it read were encodable, the counter and the number of
\* published records at its end, and the length of the log.
CallSummary ==
    [good |-> Cardinality({i \in 1..nread : video.frames[i] = "good"}),
     count |-> frame_count,
     npub |-> Len(published),
     nlog |-> Len(plog)]

\* process_video is called once more on the same instance, for another
\* source: cap is a new local, self.frame_count and self.producer are the
\* instance's and process_video assigns neither.
ProcessVideoAgain ==
    /\ ppc = "done"
    /\ prior = << >>
    /\ prior' = <<CallSummary>>
    /\ video' \in Videos
    /\ ppc' = "start"
    /\ cap' = "none"
    /\ nread' = 0
    /\ pexit' = "running"
    /\ UNCHANGED <<frame_count, published, plog, pending, wvars, qvars, avars,
                   lvars, xvars, tvars, svars>>

\* A second VideoPreprocessor: __init__ gives it a counter of its own.
SecondInit ==
    /\ seen2 = << >>
    /\ frame_count2 = 0
    /\ published2 = << >>
    /\ plog2 = << >>

\* process_frame of the second instance on one more frame.
SecondProcessFrame ==
    /\ Len(seen2) < MaxFrames
    /\ \E kind \in FrameKinds, env \in FrameEnv :
        LET r == ProducerProcessFrame(kind, frame_count2, env)
        IN  /\ seen2' = Append(seen2, kind)
            /\ published2' = published2 \o r.pub
            /\ frame_count2' = r.count
            /\ plog2' = IF r.err = "none" THEN plog2 ELSE Append(plog2, r.err)
    /\ UNCHANGED <<wvars, pvars, avars, rvars>>

ProducerNext ==
    \/ OpenVideo
    \/ ReadFrame
    \/ ReadRaises
    \/ EndOfVideo

\* One instance whose process_video is called for two sources in turn.
TwoVideosNext ==
    \/ ProducerNext
    \/ ProcessVideoAgain

\* ----------------------------------------------------------------- api
\* rag-system/src/api.py: the view of POST /api/v1/generate.
RequiredFields == <<"account_id", "topic", "query">>
RequiredSet == {RequiredFields[i] : i \in DOMAIN RequiredFields}
Absent == "<absent>"         \* the key is not in the object
AcceptedPlatforms == {"twitter", "linkedin", "facebook"}
ValidStyles == {"professional", "casual", "technical", "informal", "formal", "friendly"}

\* A request: its content type, whether its body parses as JSON and, if so,
\* the kind of value it denotes; `has` are the required names that are keys
\* of the object (elements of the list, substrings of the string); platform
\* and content_style are the object's values under these keys.
Requests ==
    {[json |-> c, valid |-> TRUE, kind |-> "object", has |-> h, platform |-> p, style |-> t] :
        c \in BOOLEAN, h \in SUBSET RequiredSet,
        p \in {Absent, "twitter", "facebook", "medium", "invalid_platform"},
        t \in {Absent, "casual", "friendly", "sarcastic"}}
    \cup {[json |-> TRUE, valid |-> TRUE, kind |-> k, has |-> h, platform |-> Absent, style |-> Absent] :
        k \in {"list", "string"}, h \in SUBSET RequiredSet}
    \cup {[json |-> TRUE, valid |-> TRUE, kind |-> k, has |-> {}, platform |-> Absent, style |-> Absent] :
        k \in {"number", "bool", "null"}}
    \cup {[json |-> c, valid |-> FALSE, kind |-> "null", has |-> {}, platform |-> Absent, style |-> Absent] :
        c \in BOOLEAN}

NoRequest == [json |-> FALSE, valid |-> FALSE, kind |-> "none", has |-> {},
              platform |-> Absent, style |-> Absent]

\* What process_content_request does when it is called.
PipelineOutcomes == {"returns", "NicheAnalysisError", "raises"}

\* jsonify(...), status: the error code ("none" for a success), the
\* missing_fields of the details and whether the pipeline was called.
Response(status, code, missing, called) ==
    [status |-> status, code |-> code, missing |-> missing, called |-> called]

NoResponse == Response(0, "none", << >>, FALSE)

\* `field not in data` for each required field: a TypeError when data is not
\* a container.
MembershipRaises(data) == data.kind \in {"number", "bool", "null"}

\* [field for field in required_fields if field not in data]
MissingFields(data) == SelectSeq(RequiredFields, LAMBDA f : f \notin data.has)

\* data.get(key, default) of an object.
Get(value, default) == IF value = Absent THEN default ELSE value

\* generate_content(): the response to a request when the pipeline, if it
\* is called, ends as `pipe`.  An exception outside the try of the view is
\* answered by handle_unexpected_error.
GenerateContent(req, pipe) ==
    IF ~req.json
    THEN Response(400, "VALIDATION_ERROR", << >>, FALSE)
    ELSE IF ~req.valid      \* get_json raises BadRequest
    THEN Response(400, "VALIDATION_ERROR", << >>, FALSE)
    ELSE IF MembershipRaises(req)
    THEN Response(500, "INTERNAL_ERROR", << >>, FALSE)
    ELSE IF MissingFields(req) # << >>
    THEN Response(400, "VALIDATION_ERROR", MissingFields(req), FALSE)
    ELSE IF req.kind # "object"   \* data.get: AttributeError
    THEN Response(500, "INTERNAL_ERROR", << >>, FALSE)
    ELSE IF Get(req.platform, "twitter") \notin AcceptedPlatforms
    THEN Response(400, "VALIDATION_ERROR", << >>, FALSE)
    ELSE IF Get(req.style, "professional") \notin ValidStyles
    THEN Response(400, "VALIDATION_ERROR", << >>, FALSE)
    ELSE IF pipe = "returns" THEN Response(200, "none", << >>, TRUE)
    ELSE IF pipe = "NicheAnalysisError" THEN Response(400, "NICHE_ANALYSIS_ERROR", << >>, TRUE)
    ELSE Response(500, "INTERNAL_ERROR", << >>, TRUE)

ApiInit ==
    /\ apiResp = NoResponse
    /\ pipelineCalls = 0

\* The server answers the request.
Generate ==
    /\ apiReq # NoRequest
    /\ apiResp = NoResponse
    /\ \E pipe \in PipelineOutcomes :
        LET r == GenerateContent(apiReq, pipe)
        IN  /\ apiResp' = r
            /\ pipelineCalls' = IF r.called THEN pipelineCalls + 1 ELSE pipelineCalls
    /\ UNCHANGED <<apiReq, wvars, pvars, qvars, rvars>>

ApiNext == Generate

\* ------------------------------------------------------------ pipeline
\* rag-system/src/services/pipeline_service.py: process_content_request.
PipelineSteps == <<"account", "niche", "prefs", "content", "post">>

\* The arguments: three strings, each empty or not, and the platform (absent
\* when the caller omits it).
PipelineRequests ==
    [account_id : {"", "acct"}, topic : {"", "AI"}, query : {"", "how"},
     platform : {Absent, "twitter", "linkedin", "invalid_platform"}]

IdleRequest == [account_id |-> "", topic |-> "", query |-> "", platform |-> Absent]

\* The platform parameter with its default.
Platform(req) == Get(req.platform, "twitter")

NoResult == [kind |-> "none"]

\* _validate_user_input: `not user_input.get('topic')` raises ValidationError.
ValidateUserInput(topic) == topic # ""

PipelineInit ==
    /\ plPc = "account"
    /\ plTrace = << >>
    /\ plResult = NoResult

\* A step ends: it is recorded and the next one is due.
StepDone(step, ok, next) ==
    /\ plTrace' = Append(plTrace, [step |-> step, ok |-> ok])
    /\ plPc' = next

\* Step 1: store_account; its exception is caught and logged.
StoreAccount ==
    /\ plPc = "account"
    /\ \E ok \in BOOLEAN : StepDone("account", ok, "niche")
    /\ UNCHANGED <<plReq, plResult, wvars, pvars, qvars, avars, xvars, tvars, svars, prior>>

\* Step 2 with the exception of analyze_niche left to propagate.
AnalyzeNicheRaises ==
    /\ plPc = "niche"
    /\ \E llm \in BOOLEAN :
        LET ok == ValidateUserInput(plReq.topic) /\ llm
        IN  StepDone("niche", ok, IF ok THEN "prefs" ELSE "raised")
    /\ UNCHANGED <<plReq, plResult, wvars, pvars, qvars, avars, xvars, tvars, svars, prior>>

\* Step 2: analyze_niche validates the input and asks the LLM; any
\* exception, ValidationError included, is caught and replaced by the
\* fallback analysis.
AnalyzeNiche ==
    /\ plPc = "niche"
    /\ \E llm \in BOOLEAN :
        StepDone("niche", ValidateUserInput(plReq.topic) /\ llm, "prefs")
    /\ UNCHANGED <<plReq, plResult, wvars, pvars, qvars, avars, xvars, tvars, svars, prior>>

\* Step 3: store_preferences; on an exception the id is an error id.
StorePreferences ==
    /\ plPc = "prefs"
    /\ \E ok \in BOOLEAN : StepDone("prefs", ok, "content")
    /\ UNCHANGED <<plReq, plResult, wvars, pvars, qvars, avars, xvars, tvars, svars, prior>>

\* Step 4: create_twitter_post for twitter, generate_with_context for any
\* other platform; on an exception the content is the fallback text.
GenerateStep ==
    /\ plPc = "content"
    /\ \E ok \in BOOLEAN : StepDone("content", ok, "post")
    /\ UNCHANGED <<plReq, plResult, wvars, pvars, qvars, avars, xvars, tvars, svars, prior>>

\* The dict process_content_request returns.
PipelineResult(req, content, post_id) ==
    [kind |-> "dict",
     dict |-> [account_id |-> req.account_id,
               post_id |-> post_id,
               content |-> content,
               platform |-> Platform(req),
               generated_at |-> "now",
               performance_metrics |->
                   [views |-> 0, likes |-> 0, shares |-> 0, comments |-> 0]]]

\* Step 5: store_post; on an exception the id is an error id.  Then the
\* result is built and returned.
StorePost ==
    /\ plPc = "post"
    /\ \E ok \in BOOLEAN :
        /\ StepDone("post", ok, "done")
        /\ plResult' = PipelineResult(plReq,
                IF plTrace[4].ok THEN "generated" ELSE "fallback",
                IF ok THEN "post_id" ELSE "error_id")
    /\ UNCHANGED <<plReq, wvars, pvars, qvars, avars, xvars, tvars, svars, prior>>

PipelineNext ==
    \/ StoreAccount
    \/ AnalyzeNiche
    \/ StorePreferences
    \/ GenerateStep
    \/ StorePost

\* --------------------------------------------------------- two workers
\* Two worker processes in _load_model with encrypted artifacts, on one
\* file system: temp_model_path is the literal '/tmp/model.pt' in both.
Workers == {"A", "B"}

\* The model versions the artifacts at the workers' MODEL_PATHs hold.
ModelVersions == {"weights-v1", "weights-v2"}

\* The plaintext of a worker's artifact.
Decrypted(w) == w2art[w]

TwoWorkersInit ==
    /\ tmpShared \in TmpBefore
    /\ w2art \in [Workers -> ModelVersions]
    /\ w2pc = [w \in Workers |-> "start"]
    /\ w2model = [w \in Workers |-> "none"]

\* The key check, the read of the artifact and the decryption: each may
\* raise, which ends the worker.
DecryptArtifact(w) ==
    /\ w2pc[w] = "start"
    /\ \E ok \in BOOLEAN : w2pc' = [w2pc EXCEPT ![w] = IF ok THEN "decrypted" ELSE "failed"]
    /\ UNCHANGED <<tmpShared, w2art, w2model, wvars, pvars, qvars, avars, lvars, xvars, svars, prior>>

\* open(temp_model_path, 'wb'): the file is created or truncated.
OpenTemp(w) ==
    /\ w2pc[w] = "decrypted"
    /\ w2pc' = [w2pc EXCEPT ![w] = "opened"]
    /\ tmpShared' = "empty"
    /\ UNCHANGED <<w2art, w2model, wvars, pvars, qvars, avars, lvars, xvars, svars, prior>>

\* f.write(decrypted_model) and the close of the with block.
WriteTemp(w) ==
    /\ w2pc[w] = "opened"
    /\ w2pc' = [w2pc EXCEPT ![w] = "written"]
    /\ tmpShared' = Decrypted(w)
    /\ UNCHANGED <<w2art, w2model, wvars, pvars, qvars, avars, lvars, xvars, svars, prior>>

\* A loader that is given the worker's own decrypted bytes.
LoadOwnBytes(w) ==
    /\ w2pc[w] = "written"
    /\ w2pc' = [w2pc EXCEPT ![w] = "loaded"]
    /\ w2model' = [w2model EXCEPT ![w] = Decrypted(w)]
    /\ UNCHANGED <<tmpShared, w2art, wvars, pvars, qvars, avars, lvars, xvars, svars, prior>>

\* YOLO(temp_model_path): the loader reads what the file holds now; a file
\* the other worker has just truncated does not load.
LoadTemp(w) ==
    /\ w2pc[w] = "written"
    /\ IF tmpShared = "empty"
       THEN /\ w2pc' = [w2pc EXCEPT ![w] = "failed"]
            /\ UNCHANGED w2model
       ELSE /\ w2pc' = [w2pc EXCEPT ![w] = "loaded"]
            /\ w2model' = [w2model EXCEPT ![w] = tmpShared]
    /\ UNCHANGED <<tmpShared, w2art, wvars, pvars, qvars, avars, lvars, xvars, svars, prior>>

TwoWorkersNext ==
    \E w \in Workers :
        \/ DecryptArtifact(w)
        \/ OpenTemp(w)
        \/ WriteTemp(w)
        \/ LoadTemp(w)

\* ---------------------------------------------------- preference store
\* RAGService keeps preferences in MongoDB or, when the connection failed
\* at construction, in a dict.  The same calls are applied to both.
Accounts == {"acct-1", "acct-2"}
Niches == {"ai", "travel"}

\* get_account_preferences found nothing: the empty dict.
EmptyDict == [account_id |-> "", preference_id |-> -1, niche |-> "", created_at |-> -1]

\* The document store_preferences builds; t1 and t2 are the two readings of
\* datetime.now().
PreferenceData(account_id, niche, t1, t2) ==
    [account_id |-> account_id, preference_id |-> t1, niche |-> niche, created_at |-> t2]

\* self._preferences[preference_id] = data: a key already in the dict keeps
\* its position and gets the new value, a new key goes to the end.
DictSet(d, key, data) ==
    IF \E i \in 1..Len(d) : d[i].preference_id = key
    THEN [i \in 1..Len(d) |-> IF d[i].preference_id = key THEN data ELSE d[i]]
    ELSE Append(d, data)

\* The in-memory get_account_preferences: the first value of the dict, in
\* insertion order, with the account; the empty dict if there is none.
MemGet(account_id) ==
    LET hits == SelectSeq(memPrefs, LAMBDA r : r.account_id = account_id)
    IN  IF hits = << >> THEN EmptyDict ELSE hits[1]

\* The MongoDB get_account_preferences: find_one sorted by created_at
\* descending yields a document of the account with the greatest
\* created_at, any of them when several share it; the empty dict if the
\* account has none.
MongoGet(account_id) ==
    LET hits == {i \in 1..Len(mongoPrefs) : mongoPrefs[i].account_id = account_id}
    IN  IF hits = {} THEN {EmptyDict}
        ELSE {mongoPrefs[i] : i \in {j \in hits :
                  \A k \in hits : mongoPrefs[k].created_at <= mongoPrefs[j].created_at}}

\* store_preferences(account_id, {'niche': niche}) applied to both stores.
\* The clock is read twice and does not go back between the readings.
StoreAccountPreferences ==
    /\ Len(mongoPrefs) < MaxStores
    /\ \E account_id \in Accounts, niche \in Niches, d1 \in 0..1, d2 \in 0..1 :
        LET t1 == now + d1
            t2 == t1 + d2
            data == PreferenceData(account_id, niche, t1, t2)
        IN  /\ now' = t2
            /\ memPrefs' = DictSet(memPrefs, t1, data)
            /\ mongoPrefs' = Append(mongoPrefs, data)
    /\ UNCHANGED <<wvars, pvars, qvars, avars, lvars, xvars, tvars, prior>>

StoreNext == StoreAccountPreferences

\* ----------------------------------------------------- initial values
WorkerExtInit == stuck = FALSE /\ undelivered = 0

TwoWorkersIdle ==
    /\ tmpShared = "absent"
    /\ w2art = << >>
    /\ w2pc = << >>
    /\ w2model = << >>

StoreInit ==
    /\ now = 0
    /\ memPrefs = << >>
    /\ mongoPrefs = << >>

PipelineIdle == PipelineInit /\ plReq = IdleRequest

\* The parts added to the worker, producer and api that are not started.
RestIdle == PipelineIdle /\ TwoWorkersIdle /\ StoreInit /\ prior = << >>

\* ------------------------------------------------------ specifications
\* The components that are not started.
WorkerIdle ==
    /\ WorkerInit
    /\ cfg = [path |-> PlainPath, key |-> NoKey, intact |-> TRUE, tmp0 |-> "absent"]
    /\ frames = << >>

ProducerIdle == ProducerInit /\ video = [opens |-> TRUE, frames |-> << >>]

ApiIdle == ApiInit /\ apiReq = NoRequest

\* The worker alone, the producer not started.
WorkerAlone == WorkerInit /\ WorkerExtInit /\ ProducerIdle /\ SecondInit /\ ApiIdle /\ RestIdle

\* The producer alone, the worker not started.
ProducerAlone == WorkerIdle /\ WorkerExtInit /\ ProducerInit /\ SecondInit /\ ApiIdle /\ RestIdle

\* The api alone, handling one request.
ApiAlone ==
    /\ WorkerIdle /\ WorkerExtInit /\ ProducerIdle /\ SecondInit /\ RestIdle
    /\ ApiInit /\ apiReq \in Requests

\* process_content_request alone, called once.
PipelineAlone ==
    /\ WorkerIdle /\ WorkerExtInit /\ ProducerIdle /\ SecondInit /\ ApiIdle
    /\ TwoWorkersIdle /\ StoreInit /\ prior = << >>
    /\ PipelineInit /\ plReq \in PipelineRequests

Init == WorkerAlone
Next == WorkerNext
Spec == Init /\ [][Next]_vars

SpecProducer == ProducerAlone /\ [][ProducerNext]_vars

\* process_video is one thread: while a call it makes can return, it does.
SpecProducerFair == ProducerAlone /\ [][ProducerNext]_vars /\ WF_vars(ProducerNext)

\* Two VideoPreprocessor instances at work, the second one frame at a time.
TwoProducersNext ==
    \/ ProducerNext
    \/ SecondProcessFrame

SpecTwoProducers == ProducerAlone /\ [][TwoProducersNext]_vars

SpecTwoVideos == ProducerAlone /\ [][TwoVideosNext]_vars

\* The preference store, nothing else.
StoreAlone == ApiIdle /\ WorkerIdle /\ WorkerExtInit /\ ProducerIdle /\ SecondInit /\ RestIdle

SpecStore == StoreAlone /\ [][StoreNext]_vars

SpecApi == ApiAlone /\ [][ApiNext]_vars

SpecPipeline == PipelineAlone /\ [][PipelineNext]_vars

\* The worker with a plaintext model, fed any partition.
RuntimeInit ==
    /\ WorkerInit /\ WorkerExtInit /\ ProducerIdle /\ SecondInit /\ ApiIdle /\ RestIdle
    /\ cfg = [path |-> PlainPath, key |-> NoKey, intact |-> TRUE, tmp0 |-> "absent"]

SpecRuntime == RuntimeInit /\ [][RuntimeNext]_vars

\* Two workers starting, nothing else.
TwoWorkersAlone ==
    /\ WorkerIdle /\ WorkerExtInit /\ ProducerIdle /\ SecondInit /\ ApiIdle
    /\ PipelineIdle /\ StoreInit /\ prior = << >>
    /\ TwoWorkersInit

SpecTwoWorkers == TwoWorkersAlone /\ [][TwoWorkersNext]_vars

\* ---------------------------------------------------- worker properties
\* Outcomes after which a record has been handed to the outbound producer.
Handed == {"ok", "dpoll"}
\* Outcomes of a message that failed.
Failures == {"json", "field", "tensor", "infer", "produce", "dpoll"}

\* Number of the first j polled messages whose detection was handed over.
RECURSIVE Rank(_)
Rank(j) == IF j = 0 THEN 0
           ELSE Rank(j - 1) + (IF outcomes[j] \in Handed THEN 1 ELSE 0)

\* The number a decimal numeral denotes.
DigitValue(c) == CHOOSE n \in 0..9 : Digit(n) = c
RECURSIVE DecimalValue(_)
DecimalValue(s) ==
    IF Len(s) = 1 THEN DigitValue(s[1])
    ELSE 10 * DecimalValue(SubSeq(s, 1, Len(s) - 1)) + DigitValue(s[Len(s)])

IsNumeral(s) ==
    /\ Len(s) >= 1
    /\ \A i \in 1..Len(s) : \E n \in 0..9 : Digit(n) = s[i]
    /\ (Len(s) > 1 => s[1] # "0")

FrameIdOf(d) == d.value.json.frame_id.val

\* Fed [malformed, well-formed], once the well-formed message was processed
\* up to the produce call exactly one detection has been published, its own.
C2_AfterSecond ==
    (/\ Len(frames) = 2 /\ Malformed(frames[1]) /\ WellFormed(frames[2])
     /\ Len(outcomes) = 2 /\ outcomes[2] \in Handed)
    => /\ Len(detections) = 1
       /\ FrameIdOf(detections[1]) = frames[2].frame_id

\* Processing a malformed message publishes nothing and leaves the worker
\* polling (or shut down by an interrupt), never crashed.
C2_OnMalformed ==
    (wpc = "processing" /\ Malformed(frames[offset]))
    => /\ wpc' \in {"polling", "shutdown"}
       /\ detections' = detections

C3_DetectionEchoesFrameId ==
    /\ Len(detections) = Rank(Len(outcomes))
    /\ \A j \in 1..Len(outcomes) :
        outcomes[j] \in Handed =>
            LET d == detections[Rank(j)]
            IN  /\ d.topic = DetectionsTopic
                /\ FrameIdOf(d) = frames[j].frame_id
                /\ IsNumeral(d.key)
                /\ DecimalValue(d.key) = frames[j].frame_id

C3_Witness ==
    \E k \in 1..Len(detections) :
        /\ FrameIdOf(detections[k]) = 7
        /\ detections[k].key = <<"7">>
        /\ offset >= 1 /\ frames[offset].frame_id = 7 /\ outcomes[offset] = "ok"

\* C4: in every published detection boxes, labels and confidences have the
\* same length.
C4_EqualLengths ==
    \A k \in 1..Len(detections) :
        LET v == detections[k].value.json
        IN  /\ Len(v.boxes.val) = Len(v.labels.val)
            /\ Len(v.labels.val) = Len(v.confidences.val)

C4_Witness ==
    /\ Len(detections) = 2
    /\ Len(detections[1].value.json.boxes.val) = 5
    /\ Len(detections[1].value.json.labels.val) = 5
    /\ Len(detections[2].value.json.labels.val) = 0

\* While the worker polls or processes, the model is loaded, by one load.
C5_LoadedWhilePolling ==
    wpc \in {"polling", "processing"} => model # "none" /\ loads = 1

\* After startup no step assigns self.model or loads a model.
C5_HandleKept == wpc # "init" => model' = model /\ loads' = loads

\* C5: whenever the worker polls or processes a message the model is loaded
\* and was loaded exactly once, and after startup neither the handle nor the
\* number of loads changes.
C5_ModelLoadedOnce == [] C5_LoadedWhilePolling /\ [][C5_HandleKept]_vars

C5_Witness ==
    /\ wpc = "processing" /\ offset = 2
    /\ model = PlainBytes /\ loads = 1
    /\ Len(detections) = 1

\* The configuration lets _load_model succeed.
Loadable(c) == ~EndsWithEnc(c.path) \/ (c.key = ArtifactKey /\ c.intact)

\* C6: a startup that failed never polled and ended the process with a
\* failure status, and a worker whose key is absent or does not decrypt the
\* artifact is never polling, processing or shut down normally.
C6_StartupFailureIsFatal ==
    /\ startErr # "none" =>
          /\ wpc = "crashed" /\ wexit = "fail"
          /\ offset = 0 /\ outcomes = << >> /\ detections = << >>
    /\ ~Loadable(cfg) => wpc \in {"init", "crashed"} /\ wexit # "ok"

C6_Witness ==
    /\ startErr = "decrypt" /\ wexit = "fail" /\ wpc = "crashed"
    /\ Len(frames) = 2

\* C7, as claimed: when startup fails for the missing key no client has been
\* created and no partition assigned.
C7_NoClientBeforeKeyFailure ==
    startErr = "nokey" => consumer = "none" /\ ~producerUp /\ ~assigned

\* C7, as the code has it: the missing key ends startup before any poll and
\* before the artifact is opened, with both clients created and the partition
\* assigned.
C7_KeyFailureBeforePolling ==
    startErr = "nokey" =>
        /\ consumer = "open" /\ producerUp /\ assigned
        /\ wpc = "crashed" /\ offset = 0 /\ artReads = 0

C7_Witness == startErr = "nokey" /\ consumer = "open" /\ EndsWithEnc(cfg.path)

\* C8: with an encrypted path and no key the artifact is never opened,
\* /tmp/model.pt keeps what it held and no model is loaded.
C8_NoIoWithoutKey ==
    (EndsWithEnc(cfg.path) /\ cfg.key = NoKey) =>
        artReads = 0 /\ tmpFile = cfg.tmp0 /\ model = "none"

C8_Witness ==
    /\ EndsWithEnc(cfg.path) /\ cfg.key = NoKey
    /\ startErr = "nokey" /\ loads = 1 /\ cfg.tmp0 = "stale"

\* C9: for an encrypted artifact a model is loaded only with the key it was
\* encrypted with and an intact token, and then /tmp/model.pt and the model
\* hold the plaintext; with another key or a corrupt token, once the
\* artifact was read, the load ends in a decryption error, /tmp/model.pt is
\* untouched and no model is loaded.
C9_DecryptRoundTrip ==
    EndsWithEnc(cfg.path) =>
        /\ model # "none" =>
              /\ cfg.key = ArtifactKey /\ cfg.intact
              /\ tmpFile = PlainBytes /\ model = PlainBytes
        /\ (/\ cfg.key \notin {NoKey, ArtifactKey} \/ (cfg.key = ArtifactKey /\ ~cfg.intact)
            /\ loads = 1 /\ startErr # "read")
           => /\ startErr \in {"badkey", "decrypt"}
              /\ tmpFile = cfg.tmp0
              /\ model = "none"

C9_Witness ==
    /\ EndsWithEnc(cfg.path) /\ cfg.key = ArtifactKey /\ cfg.intact
    /\ cfg.tmp0 = "stale" /\ tmpFile = PlainBytes /\ model = PlainBytes
    /\ wpc = "polling"

\* Whatever fails while a message is processed, the worker is polling again
\* afterwards (or shut down by an interrupt).
C10_BackToPolling == wpc = "processing" => wpc' \in {"polling", "shutdown"}

\* A message processed successfully after an earlier one failed has its
\* detection handed to the producer.
C10_LaterPublished ==
    \A j \in 1..Len(outcomes) :
        (outcomes[j] = "ok" /\ \E i \in 1..(j - 1) : outcomes[i] \in Failures)
        => /\ Rank(j) <= Len(detections)
           /\ FrameIdOf(detections[Rank(j)]) = frames[j].frame_id

\* C10: a message being processed always leaves the worker polling (or shut
\* down by an interrupt), whatever fails; and the detection of every message
\* that was processed successfully after an earlier message had failed has
\* been handed to the producer.
C10_SkipAndContinue == [] C10_LaterPublished /\ [][C10_BackToPolling]_vars

C10_Witness ==
    /\ Len(outcomes) = 2 /\ outcomes[1] = "produce" /\ outcomes[2] = "ok"
    /\ WellFormed(frames[1])
    /\ Len(detections) = 1 /\ FrameIdOf(detections[1]) = frames[2].frame_id
    /\ wpc = "polling"

\* C11: a worker whose startup succeeded leaves the loop of run only by an
\* external cancellation: once it has polled it is polling, processing or
\* shut down by the interrupt, never ended by anything else.
C11_OnlyCancellationEndsRun ==
    (startErr = "none" /\ wpc # "init") => wpc \in {"polling", "processing", "shutdown"}

\* C12: a worker that entered run and has terminated, by the interrupt or by
\* an exception that escaped run, has closed its consumer.
C12_ConsumerClosedOnExit ==
    (startErr = "none" /\ wexit # "running") => consumer = "closed"

C12_Witness ==
    /\ startErr = "none" /\ wpc = "crashed" /\ wexit = "fail"
    /\ consumer = "closed" /\ offset = 1

\* Every message polled so far has ended in one outcome, except the one
\* being processed; the detections are those of the messages handed over,
\* one each, on the detections topic; a message that failed before the
\* produce call has none.
C18_OneOutcomeEach ==
    /\ offset <= Len(frames)
    /\ Len(outcomes) = IF wpc = "processing" THEN offset - 1 ELSE offset
    /\ Len(detections) = Rank(Len(outcomes))
    /\ \A k \in 1..Len(detections) : detections[k].topic = DetectionsTopic
    /\ \A j \in 1..Len(outcomes) :
        outcomes[j] \in Handed => FrameIdOf(detections[Rank(j)]) = frames[j].frame_id

\* No step polls a message again: the offset never goes back, it does not
\* move while a message is processed, and a step appends at most one
\* outcome and at most one detection.
C18_NeverRepolled ==
    /\ offset' >= offset
    /\ wpc = "processing" => offset' = offset
    /\ Len(outcomes') <= Len(outcomes) + 1
    /\ Len(detections') <= Len(detections) + 1
    /\ SubSeq(detections', 1, Len(detections)) = detections

\* C18: within a run each polled message is processed once and yields at
\* most one detection, on the detections topic; a message that failed stays
\* consumed, with no detection and no second poll.
C18_AtMostOnce == [] C18_OneOutcomeEach /\ [][C18_NeverRepolled]_vars

C18_Witness ==
    /\ Len(outcomes) = 2 /\ outcomes[1] = "infer" /\ outcomes[2] = "ok"
    /\ offset = 2 /\ wpc = "polling"
    /\ Len(detections) = 1 /\ FrameIdOf(detections[1]) = frames[2].frame_id

\* The frame ids of the first j polled messages whose detection was handed
\* over, in the order the messages were polled.
RECURSIVE IdsHanded(_)
IdsHanded(j) ==
    IF j = 0 THEN << >>
    ELSE IF outcomes[j] \in Handed THEN Append(IdsHanded(j - 1), frames[j].frame_id)
    ELSE IdsHanded(j - 1)

\* At most one polled message has no outcome yet, the one being processed,
\* and the detections are in the order their messages were polled.
C24_InOrder ==
    /\ Len(outcomes) = IF wpc = "processing" THEN offset - 1 ELSE offset
    /\ [k \in 1..Len(detections) |-> FrameIdOf(detections[k])] = IdsHanded(Len(outcomes))

\* A message is polled only when every earlier one has its outcome and, if
\* it was handed over, its detection.
C24_PollAfterDone ==
    offset' # offset =>
        /\ wpc = "polling" /\ offset' = offset + 1
        /\ Len(outcomes) = offset
        /\ Len(detections) = Rank(offset)

\* C24: the worker polls a message only when the previous one has been
\* processed and its detection handed to the outbound producer, and the
\* detections are handed over in the order their messages were polled.
C24_OneAtATime == [] C24_InOrder /\ [][C24_PollAfterDone]_vars

C24_Witness ==
    /\ Len(frames) = 2 /\ frames[1].frame_id = 12 /\ frames[2].frame_id = 7
    /\ Len(detections) = 2
    /\ FrameIdOf(detections[1]) = 12 /\ FrameIdOf(detections[2]) = 7
    /\ wpc = "polling"

\* What a worker loads is what the shared file holds when its loader runs.
C25_LoadsWhatFileHolds ==
    \A w \in Workers :
        (w2pc[w] = "written" /\ w2pc'[w] = "loaded") => w2model'[w] = tmpShared

\* Both workers write the same path: the file holds the bytes of the worker
\* that wrote last.
C25_SamePath ==
    \A w \in Workers :
        (w2pc[w] = "opened" /\ w2pc'[w] = "written") => tmpShared' = Decrypted(w)

\* C25: the two workers write their decrypted bytes to one path and each
\* loads whatever that path holds when its loader runs, the other worker's
\* bytes included.
C25_SharedTempPath == [][C25_LoadsWhatFileHolds /\ C25_SamePath]_vars

C25_Witness ==
    /\ Decrypted("A") # Decrypted("B")
    /\ w2pc["A"] = "loaded" /\ w2model["A"] = Decrypted("B")
    /\ w2pc["B"] \in {"written", "loaded"}

\* Once a model call hangs, the worker is in that call.
C26_StaysProcessing == stuck => wpc = "processing"

\* From then on no message is polled, no detection handed over, and the
\* call stays hung.
C26_NoProgress == stuck => (offset' = offset /\ detections' = detections /\ stuck')

\* C26: once a model invocation never returns the worker stays in processing
\* forever: no later message is polled and no further detection is handed to
\* the producer.
C26_HangBlocksPartition == [] C26_StaysProcessing /\ [][C26_NoProgress]_vars

C26_Witness ==
    /\ stuck /\ wpc = "processing"
    /\ offset = 1 /\ Len(frames) = 2 /\ WellFormed(frames[2])
    /\ detections = << >>

\* C29: a step that ends in shutdown delivers nothing and flushes nothing:
\* the detections still queued in the outbound producer stay undelivered;
\* and processing a message only adds its detection to the queue.
C29_ShutdownDoesNotFlush ==
    [][/\ wpc' = "shutdown" => undelivered' = undelivered
       /\ Len(detections') > Len(detections) => undelivered' = undelivered + 1]_vars

C29_Witness ==
    /\ wpc = "shutdown" /\ wexit = "ok" /\ consumer = "closed"
    /\ Len(detections) = 2 /\ undelivered = 1

\* -------------------------------------------------- producer properties
\* C1: once process_video has run through a source of N frames, each of
\* which cv2.imencode encodes, with every flush returning, the records
\* handed to the frames producer carry the frame ids 0, 1, ..., N-1 in this
\* order.
C1_IdsZeroToN ==
    (/\ ppc = "done" /\ video.opens /\ nread = Len(video.frames)
     /\ \A i \in 1..Len(video.frames) : video.frames[i] = "good"
     /\ \A i \in 1..Len(plog) : plog[i] # "flush")
    => /\ Len(published) = Len(video.frames)
       /\ \A k \in 1..Len(published) : FrameIdOf(published[k]) = k - 1

\* Number of the first n frames of the source that cv2.imencode encodes.
GoodAmong(n) == Cardinality({i \in 1..n : video.frames[i] = "good"})

\* The log has no error of the given kinds.
NotLogged(log, kinds) == \A i \in 1..Len(log) : log[i] \notin kinds

\* C13: once process_video has ended on a source that did not open, nothing
\* was published and the process has ended with a failure status.
C13_OpenFailureIsFatal ==
    (ppc = "done" /\ ~video.opens) => published = << >> /\ pexit = "fail"

C15_LoopSurvivesFrameFailure ==
    (ppc = "done" /\ video.opens /\ NotLogged(plog, {"read"}))
    => /\ nread = Len(video.frames)
       /\ \A a, b \in 1..Len(published) :
              FrameIdOf(published[a]) = FrameIdOf(published[b]) => a = b

\* C16: the counter is the number of frames read so far that were encoded.
C16_CounterCountsEncoded == frame_count = GoodAmong(nread)

\* Once process_video has ended the handle is released and the process has
\* ended normally; if every read and flush returned, the source was exhausted.
C17_Released ==
    ppc = "done" =>
        /\ cap = "released" /\ pexit = "ok"
        /\ (video.opens /\ NotLogged(plog, {"read", "flush"})) => nread = Len(video.frames)

\* C17: process_video eventually ends, whatever failed for single frames,
\* and when it has ended the capture handle is released and the process has
\* ended normally.
C17_TerminatesAndReleases == <>(ppc = "done") /\ [] C17_Released

C17_Witness ==
    /\ ppc = "done" /\ cap = "released" /\ pexit = "ok"
    /\ Len(video.frames) = MaxFrames /\ nread = MaxFrames
    /\ video.frames[1] = "bad" /\ video.frames[2] = "good"
    /\ Len(plog) = MaxFrames

\* C19: when each of two instances has processed a frame that was encoded
\* (produce and poll returning), each has published the frame ids 0, 1, ...
\* of its own counter, so both have published frame id 0.
C19_EachCountsFromZero ==
    (/\ GoodAmong(nread) >= 1
     /\ \E i \in 1..Len(seen2) : seen2[i] = "good"
     /\ NotLogged(plog, {"produce", "poll"}) /\ NotLogged(plog2, {"produce", "poll"}))
    => /\ Len(published) >= 1 /\ Len(published2) >= 1
       /\ \A k \in 1..Len(published) : FrameIdOf(published[k]) = k - 1
       /\ \A k \in 1..Len(published2) : FrameIdOf(published2[k]) = k - 1

\* The part of the log written since the second process_video call began.
LogOfSecondCall == SubSeq(plog, prior[1].nlog + 1, Len(plog))

\* The records published since the second process_video call began.
PublishedInSecondCall == SubSeq(published, prior[1].npub + 1, Len(published))

\* The second call begins with the counter the first call ended with.
C28_CounterCarriedOver ==
    [][(prior = << >> /\ prior' # << >>) => frame_count' = frame_count]_vars

LacksField(req) == req.kind # "object" \/ req.has # RequiredSet

\* The request is one the claim calls invalid: its body is not JSON, it
\* lacks a required field, or it names a platform or style not accepted.
InvalidRequest(req) ==
    \/ ~req.json \/ ~req.valid
    \/ LacksField(req)
    \/ Get(req.platform, "twitter") \notin AcceptedPlatforms
    \/ Get(req.style, "professional") \notin ValidStyles

\* C20: every invalid request is answered 400 VALIDATION_ERROR, with the
\* missing required fields listed when the body is JSON, and the pipeline is
\* not called for it.
C20_InvalidRequestIs400 ==
    (apiResp # NoResponse /\ InvalidRequest(apiReq))
    => /\ apiResp.status = 400 /\ apiResp.code = "VALIDATION_ERROR"
       /\ (apiReq.json /\ apiReq.valid /\ apiReq.kind = "object" /\ LacksField(apiReq))
             => apiResp.missing = MissingFields(apiReq)
       /\ pipelineCalls = 0

\* ----------------------------------------------------- store properties
\* The preference most recently stored for the account; the empty dict if
\* none was.
LastStored(account_id) ==
    LET hits == SelectSeq(mongoPrefs, LAMBDA r : r.account_id = account_id)
    IN  IF hits = << >> THEN EmptyDict ELSE hits[Len(hits)]

\* C30: for every account both stores return the preference most recently
\* stored for it, and the empty dict if none was stored.
C30_StoresAgree ==
    \A a \in Accounts :
        /\ MemGet(a).niche = LastStored(a).niche
        /\ \A r \in MongoGet(a) : r.niche = LastStored(a).niche

\* -------------------------------------------------- pipeline properties
ResultKeys == {"account_id", "post_id", "content", "platform", "generated_at",
               "performance_metrics"}

\* The steps of the trace, in order.
StepsRun == [i \in DOMAIN plTrace |-> plTrace[i].step]

C22_InvalidPlatformRaises ==
    (plReq.platform = "invalid_platform" /\ plPc \in {"done", "raised"})
    => plPc = "raised" /\ plResult = NoResult

\* C23: a call with empty account_id, topic and query ends by raising and
\* returns no result.
C23_EmptyInputRaises ==
    (/\ plReq.account_id = "" /\ plReq.topic = "" /\ plReq.query = ""
     /\ plPc \in {"done", "raised"})
    => plPc = "raised" /\ plResult = NoResult

====
